---------------------------- MODULE Spec2Model ----------------------------
(***************************************************************************)
(* Model of md-repo: the CPU stress engine of crates/md_hardware           *)
(* (CpuExplosion::stress_test_cpu and its workers) and the controller of   *)
(* src/main.rs (App, its handlers and the event loop of main).             *)
(*                                                                         *)
(* The specifications share the variables:                                 *)
(*   Spec        the whole program: main's event loop driving the engine;  *)
(*   InputSpec   the program from the moment a duration has been typed,    *)
(*               for buffers too long to type key by key in the model;     *)
(*   EngineSpec  the library alone: one call of stress_test_cpu by a       *)
(*               caller that may store true to the public stop_signal;     *)
(*   FairEngineSpec  EngineSpec with the fairness of a running clock and   *)
(*               of scheduled threads;                                     *)
(*   FairSpec    Spec with main's loop going round;                        *)
(*   CoresSpec   the program on machines of 1..MaxCores logical cores;     *)
(*   ChartSpec   the program through a run that fills the chart;           *)
(*   FaultSpec   the library with workers that may panic;                  *)
(*   FibSpec     one worker of the library followed pass by pass, with the *)
(*               a and b of its recurrence.                                *)
(***************************************************************************)
EXTENDS Integers, Sequences, FiniteSets, TLC

VARIABLES
    now,          \* the monotonic clock (Instant::now()), in ticks
    app,          \* main.rs: struct App
    running,      \* main.rs: main's local `running`
    panicked,     \* the main thread has unwound from a panic
    stop_signal,  \* lib.rs: one Arc<AtomicBool> per CpuExplosion::new(), in creation order
    cancels,      \* stores of true to stop_signal made by the caller of the library
    runs,         \* one record per spawned stress_test_cpu task, in spawn order
    workers       \* workers[r][w]: the locals of worker w of run r

vars == <<now, app, running, panicked, stop_signal, cancels, runs, workers>>

---------------------------------------------------------------------------
(* Program constants *)

SCORE_UNIT == 1000000

max_data_points == 100

(* Bounds of the model *)

\* ticks of the clock per second: Duration::as_secs truncates to whole seconds
TicksPerSec == 1
\* the clock advances to MaxTicks, and beyond only towards a timeout (see Tick)
MaxTicks == 1
\* System::cpus().len(): the logical cores the sampler reports
LogicalCores == 1
\* a worker is followed for at most MaxUnits * SCORE_UNIT iterations
MaxUnits == 1
\* tasks spawned, and CpuExplosions made, in one behaviour of Spec
MaxRuns == 2
\* digits typed into the duration buffer
MaxDigits == 1
\* EngineSpec: the caller's duration_sec ranges over 0..MaxDuration
MaxDuration == 1
\* EngineSpec: stores to stop_signal by the caller
MaxCancels == 2
\* EngineSpec: the caller's cpu_cores ranges over 1..MaxWorkers
MaxWorkers == 2
\* CoresSpec: the sampler reports 1..MaxCores logical cores
MaxCores == 2
\* FibSpec: the passes through the loop a worker is followed for, one by one
MaxPasses == 190
\* FaultSpec: the caller's cpu_cores ranges over 1..MaxFaultWorkers
MaxFaultWorkers == 3
\* ChartSpec: the clock advances to MaxSeconds seconds
MaxSeconds == 103
\* ChartSpec: the seconds, of those the chart spans, that pass without a pass
\* of main's loop (a pass takes about 100 ms: one is missed only when the
\* process is held up)
MaxMissed == 1

\* the keys the model presses for KeyCode::Char
CharKeys == {"0", "1", "x"}

\* the passes through the worker's loop are taken in batches of these sizes
\* (see WorkerIterate): following 1,000,000 single passes is out of reach
IterBatches == {SCORE_UNIT \div 2, SCORE_UNIT}

---------------------------------------------------------------------------
(* u64 values are kept as decimal digit sequences, most significant digit  *)
(* first, without leading zeros (zero is <<0>>): 2^64 is beyond the        *)
(* model checker's integers.                                               *)

U64_MAX == <<1,8,4,4,6,7,4,4,0,7,3,7,0,9,5,5,1,6,1,5>>

TWO_POW_64 == <<1,8,4,4,6,7,4,4,0,7,3,7,0,9,5,5,1,6,1,6>>

RECURSIVE StripZeros(_)
StripZeros(ds) ==
    IF Len(ds) > 1 /\ ds[1] = 0 THEN StripZeros(Tail(ds)) ELSE ds

RECURSIVE NatToNum(_)
NatToNum(n) ==
    IF n < 10 THEN <<n>> ELSE Append(NatToNum(n \div 10), n % 10)

RECURSIVE NumLess(_, _)
NumLess(x, y) ==
    IF Len(x) # Len(y) THEN Len(x) < Len(y)
    ELSE IF x = <<>> THEN FALSE
    ELSE IF x[1] # y[1] THEN x[1] < y[1]
    ELSE NumLess(Tail(x), Tail(y))

NumLeq(x, y) == x = y \/ NumLess(x, y)

\* ds * k + carry, digit by digit from the least significant end (k <= 60)
RECURSIVE MulSmall(_, _, _)
MulSmall(ds, k, carry) ==
    IF ds = <<>> THEN (IF carry = 0 THEN <<>> ELSE NatToNum(carry))
    ELSE LET p == ds[Len(ds)] * k + carry
         IN  Append(MulSmall(SubSeq(ds, 1, Len(ds) - 1), k, p \div 10), p % 10)

NumMul(ds, k) == StripZeros(MulSmall(ds, k, 0))

\* x - y for x >= y, both of the same length after padding, with borrow
RECURSIVE SubDigits(_, _, _)
SubDigits(x, y, borrow) ==
    IF x = <<>> THEN <<>>
    ELSE LET yd == IF y = <<>> THEN 0 ELSE y[Len(y)]
             d  == x[Len(x)] - yd - borrow
             yr == IF y = <<>> THEN <<>> ELSE SubSeq(y, 1, Len(y) - 1)
         IN  Append(SubDigits(SubSeq(x, 1, Len(x) - 1), yr, IF d < 0 THEN 1 ELSE 0),
                    IF d < 0 THEN d + 10 ELSE d)

NumSub(x, y) == StripZeros(SubDigits(x, y, 0))

\* x + y + carry, digit by digit from the least significant end
RECURSIVE AddDigits(_, _, _)
AddDigits(x, y, carry) ==
    IF x = <<>> /\ y = <<>> THEN (IF carry = 0 THEN <<>> ELSE <<carry>>)
    ELSE LET xd == IF x = <<>> THEN 0 ELSE x[Len(x)]
             yd == IF y = <<>> THEN 0 ELSE y[Len(y)]
             xr == IF x = <<>> THEN <<>> ELSE SubSeq(x, 1, Len(x) - 1)
             yr == IF y = <<>> THEN <<>> ELSE SubSeq(y, 1, Len(y) - 1)
             d  == xd + yd + carry
         IN  Append(AddDigits(xr, yr, d \div 10), d % 10)

NumAdd(x, y) == StripZeros(AddDigits(x, y, 0))

\* x mod 2^64: what a wrapping u64 operation keeps
RECURSIVE WrapU64(_)
WrapU64(x) == IF NumLeq(x, U64_MAX) THEN x ELSE WrapU64(NumSub(x, TWO_POW_64))

---------------------------------------------------------------------------
(* str::parse::<u64>() and char::is_ascii_digit *)

AsciiDigits == <<"0", "1", "2", "3", "4", "5", "6", "7", "8", "9">>

is_ascii_digit(c) == \E i \in 1..10 : AsciiDigits[i] = c

DigitValue(c) == (CHOOSE i \in 1..10 : AsciiDigits[i] = c) - 1

\* Ok(value) or Err: empty, a character that is no digit, or more than u64::MAX;
\* one leading "+" is accepted
parse_u64(s) ==
    LET body == IF s # <<>> /\ s[1] = "+" THEN Tail(s) ELSE s
    IN  IF body = <<>> \/ \E i \in 1..Len(body) : ~is_ascii_digit(body[i])
        THEN [ok |-> FALSE, value |-> <<0>>]
        ELSE LET v == StripZeros([i \in 1..Len(body) |-> DigitValue(body[i])])
             IN  IF NumLeq(v, U64_MAX) THEN [ok |-> TRUE, value |-> v]
                 ELSE [ok |-> FALSE, value |-> <<0>>]

\* "Invalid input".to_string()
InvalidInput == <<"I", "n", "v", "a", "l", "i", "d", " ", "i", "n", "p", "u", "t">>

---------------------------------------------------------------------------
(* Option<T>: None is <<>>, Some(x) is <<x>> *)

None == <<>>

Some(x) == <<x>>

\* Duration::as_secs of a span of `ticks`
as_secs(ticks) == ticks \div TicksPerSec

\* cpu_refresh_interval: Duration::from_secs(1)
cpu_refresh_interval == TicksPerSec

\* avg_percent_usage_cpu of a sample read from the system: any of these
UsageSamples == {50}

---------------------------------------------------------------------------
(* main.rs: struct App.  stress_test is the index in stop_signal of the    *)
(* flag the CpuExplosion holds; stress_test_handle is the index in runs of *)
(* the task the JoinHandle refers to; system_usage counts the instances of *)
(* SystemUsage made so far.  cpu_info_cached holds what the system         *)
(* reported and is not kept.                                               *)

AppNew ==
    [ mode                           |-> "Input",
      input_text                     |-> <<>>,
      selected_unit                  |-> "Seconds",
      chart_data                     |-> <<>>,
      start_time                     |-> None,
      total_duration_secs            |-> <<0>>,
      elapsed_secs                   |-> 0,
      current_input_focus            |-> "UnitSelection",
      finished_popup_selected_option |-> "RunAgain",
      system_usage                   |-> 1,
      last_cpu_refresh               |-> 0,
      total_logical_cores            |-> LogicalCores,
      selected_cpu_count             |-> 1,
      stress_test                    |-> 1,
      stress_test_handle             |-> None ]

\* reset_for_input leaving the chart as it was
reset_for_input_keeps_chart(a) ==
    [a EXCEPT !.mode = "Input",
              !.input_text = <<>>,
              !.start_time = None,
              !.total_duration_secs = <<0>>,
              !.elapsed_secs = 0,
              !.current_input_focus = "ValueInput",
              !.finished_popup_selected_option = "RunAgain",
              !.stress_test_handle = None,
              !.stress_test = Len(stop_signal) + 1,
              !.system_usage = @ + 1,
              !.last_cpu_refresh = now,
              !.selected_cpu_count = 1]

\* reset_for_input without `self.stress_test = CpuExplosion::new()`
reset_for_input_keeps_engine(a) ==
    [a EXCEPT !.mode = "Input",
              !.input_text = <<>>,
              !.chart_data = <<>>,
              !.start_time = None,
              !.total_duration_secs = <<0>>,
              !.elapsed_secs = 0,
              !.current_input_focus = "ValueInput",
              !.finished_popup_selected_option = "RunAgain",
              !.stress_test_handle = None,
              !.system_usage = @ + 1,
              !.last_cpu_refresh = now,
              !.selected_cpu_count = 1]

\* reset_for_input leaving the selected core count as it was
reset_for_input_keeps_cores(a) ==
    [a EXCEPT !.mode = "Input",
              !.input_text = <<>>,
              !.chart_data = <<>>,
              !.start_time = None,
              !.total_duration_secs = <<0>>,
              !.elapsed_secs = 0,
              !.current_input_focus = "ValueInput",
              !.finished_popup_selected_option = "RunAgain",
              !.stress_test_handle = None,
              !.stress_test = Len(stop_signal) + 1,
              !.system_usage = @ + 1,
              !.last_cpu_refresh = now]

\* reset_for_input leaving the JoinHandle in place
reset_for_input_keeps_handle(a) ==
    [a EXCEPT !.mode = "Input",
              !.input_text = <<>>,
              !.chart_data = <<>>,
              !.start_time = None,
              !.total_duration_secs = <<0>>,
              !.elapsed_secs = 0,
              !.current_input_focus = "ValueInput",
              !.finished_popup_selected_option = "RunAgain",
              !.stress_test = Len(stop_signal) + 1,
              !.system_usage = @ + 1,
              !.last_cpu_refresh = now,
              !.selected_cpu_count = 1]

\* App::reset_for_input
reset_for_input(a) ==
    [a EXCEPT !.mode = "Input",
              !.input_text = <<>>,
              !.chart_data = <<>>,
              !.start_time = None,
              !.total_duration_secs = <<0>>,
              !.elapsed_secs = 0,
              !.current_input_focus = "ValueInput",
              !.finished_popup_selected_option = "RunAgain",
              !.stress_test_handle = None,
              !.stress_test = Len(stop_signal) + 1,
              !.system_usage = @ + 1,
              !.last_cpu_refresh = now,
              !.selected_cpu_count = 1]

\* value * 60 of set_total_duration overflows u64
MinutesOverflow(a) ==
    /\ parse_u64(a.input_text).ok
    /\ a.selected_unit = "Minutes"
    /\ ~NumLeq(NumMul(parse_u64(a.input_text).value, 60), U64_MAX)

\* the match on selected_unit of set_total_duration; an overflowing product
\* wraps (overflow checks off: the release profile)
DurationSecs(value, unit) ==
    IF unit = "Seconds" THEN value ELSE WrapU64(NumMul(value, 60))

\* set_total_duration with the parse error dropped: parse().unwrap_or(0)
set_total_duration_unchecked(a, task) ==
    [a EXCEPT !.total_duration_secs =
                  IF parse_u64(a.input_text).ok
                  THEN DurationSecs(parse_u64(a.input_text).value, a.selected_unit)
                  ELSE <<0>>,
              !.start_time = Some(now),
              !.elapsed_secs = 0,
              !.stress_test_handle = Some(task),
              !.mode = "Chart"]

\* App::set_total_duration, for a run that becomes task number `task` of runs
set_total_duration(a, task) ==
    LET parsed == parse_u64(a.input_text)
    IN  IF parsed.ok
        THEN [a EXCEPT !.total_duration_secs = DurationSecs(parsed.value, a.selected_unit),
                       !.start_time = Some(now),
                       !.elapsed_secs = 0,
                       !.stress_test_handle = Some(task),
                       !.mode = "Chart"]
        ELSE [a EXCEPT !.input_text = InvalidInput]

\* Vec::pop in place of Vec::remove(0): the newest sample is dropped
RemoveLast(v) == SubSeq(v, 1, Len(v) - 1)

\* Vec::remove(0)
RemoveFirst(v) == Tail(v)

\* the sample appended whenever the elapsed second is not below the last one
UpdateChartEverySample(a, usage) ==
    IF a.start_time = None THEN a
    ELSE LET new_elapsed == as_secs(now - a.start_time[1])
         IN  IF new_elapsed >= a.elapsed_secs
             THEN LET pushed == Append(a.chart_data, <<new_elapsed, usage>>)
                  IN  [a EXCEPT !.elapsed_secs = new_elapsed,
                                !.chart_data = IF Len(pushed) > max_data_points
                                               THEN RemoveFirst(pushed) ELSE pushed]
             ELSE a

\* the chart part of App::update_data; usage is avg_percent_usage_cpu(&cpus)
UpdateChart(a, usage) ==
    IF a.start_time = None THEN a
    ELSE LET new_elapsed == as_secs(now - a.start_time[1])
         IN  IF new_elapsed > a.elapsed_secs
             THEN LET pushed == Append(a.chart_data, <<new_elapsed, usage>>)
                  IN  [a EXCEPT !.elapsed_secs = new_elapsed,
                                !.chart_data = IF Len(pushed) > max_data_points
                                               THEN RemoveFirst(pushed) ELSE pushed]
             ELSE a

\* App::update_data
update_data(a, usage) ==
    LET charted == UpdateChart(a, usage)
    IN  IF now - charted.last_cpu_refresh >= cpu_refresh_interval
        THEN [charted EXCEPT !.last_cpu_refresh = now]
        ELSE charted

---------------------------------------------------------------------------
(* main.rs: the key handling of main's loop.  Each handler gives the App   *)
(* after the key, whether the loop keeps running, and whether the          *)
(* JoinHandle was aborted.                                                 *)

Handled(a) == [app |-> a, running |-> TRUE, abort |-> FALSE]

Quit(a, abort) == [app |-> a, running |-> FALSE, abort |-> abort]

ToggleUnit(u) == IF u = "Seconds" THEN "Minutes" ELSE "Seconds"

TogglePopup(o) == IF o = "RunAgain" THEN "Exit" ELSE "RunAgain"

\* Mode::Input, KeyCode::Char(c)
InputChar(a, c) ==
    IF a.current_input_focus = "ValueInput" /\ is_ascii_digit(c)
    THEN [a EXCEPT !.input_text = Append(@, c)]
    ELSE a

\* Mode::Input, KeyCode::Backspace (String::pop of an empty string does nothing)
InputBackspace(a) ==
    IF a.current_input_focus = "ValueInput" /\ a.input_text # <<>>
    THEN [a EXCEPT !.input_text = SubSeq(@, 1, Len(@) - 1)]
    ELSE a

\* Mode::Input, KeyCode::Tab
InputTab(a) ==
    [a EXCEPT !.current_input_focus =
        CASE @ = "ValueInput"        -> "CpuCountSelection"
          [] @ = "UnitSelection"     -> "ValueInput"
          [] @ = "CpuCountSelection" -> "OkButton"
          [] @ = "OkButton"          -> "UnitSelection"]

\* Mode::Input, KeyCode::Down | KeyCode::Left
InputDown(a) ==
    CASE a.current_input_focus = "UnitSelection" ->
            [a EXCEPT !.selected_unit = ToggleUnit(@)]
      [] a.current_input_focus = "CpuCountSelection" /\ a.selected_cpu_count > 1 ->
            [a EXCEPT !.selected_cpu_count = @ - 1]
      [] OTHER -> a

\* the increment guarded by <= instead of <
InputUpPastCores(a) ==
    CASE a.current_input_focus = "UnitSelection" ->
            [a EXCEPT !.selected_unit = ToggleUnit(@)]
      [] a.current_input_focus = "CpuCountSelection"
           /\ a.selected_cpu_count <= a.total_logical_cores ->
            [a EXCEPT !.selected_cpu_count = @ + 1]
      [] OTHER -> a

\* Mode::Input, KeyCode::Up | KeyCode::Right
InputUp(a) ==
    CASE a.current_input_focus = "UnitSelection" ->
            [a EXCEPT !.selected_unit = ToggleUnit(@)]
      [] a.current_input_focus = "CpuCountSelection"
           /\ a.selected_cpu_count < a.total_logical_cores ->
            [a EXCEPT !.selected_cpu_count = @ + 1]
      [] OTHER -> a

\* Enter confirming from the core count selector as well as from the OK button
InputEnterFromCpuCount(a) ==
    CASE a.current_input_focus = "ValueInput" ->
            [a EXCEPT !.current_input_focus = "UnitSelection"]
      [] a.current_input_focus = "UnitSelection" ->
            [a EXCEPT !.current_input_focus = "CpuCountSelection"]
      [] a.current_input_focus = "CpuCountSelection" ->
            set_total_duration(a, Len(runs) + 1)
      [] a.current_input_focus = "OkButton" ->
            set_total_duration(a, Len(runs) + 1)

\* Mode::Input, KeyCode::Enter
InputEnter(a) ==
    CASE a.current_input_focus = "ValueInput" ->
            [a EXCEPT !.current_input_focus = "UnitSelection"]
      [] a.current_input_focus = "UnitSelection" ->
            [a EXCEPT !.current_input_focus = "CpuCountSelection"]
      [] a.current_input_focus = "CpuCountSelection" ->
            [a EXCEPT !.current_input_focus = "OkButton"]
      [] a.current_input_focus = "OkButton" ->
            set_total_duration(a, Len(runs) + 1)

\* the match on app.mode and key.code, for a key that is no quit key
on_key(a, key) ==
    CASE a.mode = "Input" ->
            Handled(CASE key = "Backspace"          -> InputBackspace(a)
                      [] key = "Tab"                -> InputTab(a)
                      [] key \in {"Down", "Left"}   -> InputDown(a)
                      [] key \in {"Up", "Right"}    -> InputUp(a)
                      [] key = "Enter"              -> InputEnter(a)
                      [] key \in CharKeys           -> InputChar(a, key)
                      [] OTHER                      -> a)
      [] a.mode = "Chart" ->
            Handled(IF key = "Esc" THEN reset_for_input(a) ELSE a)
      [] a.mode = "Finished" ->
            CASE key = "Enter" ->
                    IF a.finished_popup_selected_option = "RunAgain"
                    THEN Handled(reset_for_input(a))
                    ELSE Quit(a, FALSE)
              [] key \in {"Up", "Down", "Tab"} ->
                    Handled([a EXCEPT !.finished_popup_selected_option = TogglePopup(@)])
              [] key = "Esc" -> Quit(a, TRUE)
              [] OTHER -> Handled(a)

\* 'q', 'Q' and Ctrl+C, in every mode
on_quit(a) == Quit(a, TRUE)

---------------------------------------------------------------------------
(* lib.rs: the task of stress_test_cpu and its workers *)

\* tokio::spawn(async move { stress_tester.stress_test_cpu(duration, cores).await });
\* stopped_at_start records the flag as it was when the workers were spawned
\* (it is no variable of the code)
SpawnedTask(engine, duration_sec, cpu_cores) ==
    [ state        |-> "spawned",
      stop_signal  |-> engine,
      duration_sec |-> duration_sec,
      cpu_cores    |-> cpu_cores,
      start_time   |-> 0,
      score        |-> 0,
      final_score  |-> 0,
      stopped_at_start |-> FALSE ]

\* the locals of fibonnaci_compute_blocking; iterations counts the passes
\* through the loop body (it is no variable of the code)
WorkerStart ==
    [ pc |-> "flag", local_score |-> 0, converted_score |-> 0, cur_value |-> 0,
      iterations |-> 0 ]

\* the worker has returned: its locals are gone
Returned(wk) == [WorkerStart EXCEPT !.pc = "done", !.iterations = wk.iterations]

\* JoinHandle::is_finished
is_finished(task) ==
    task <= Len(runs) /\ runs[task].state \in {"returned", "aborted"}

\* JoinHandle::abort: a task that has not completed is cancelled at its await
Abort(task) ==
    IF runs[task].state \in {"spawned", "joining"}
    THEN [runs EXCEPT ![task].state = "aborted"]
    ELSE runs

\* the result of a run that the App holds: struct App has no field for a
\* score, and the u64 that stress_test_cpu returned is to be had only from a
\* JoinHandle<u64> of a task that has returned
LastResult(a) ==
    IF a.stress_test_handle # None
       /\ a.stress_test_handle[1] <= Len(runs)
       /\ runs[a.stress_test_handle[1]].state = "returned"
    THEN Some(runs[a.stress_test_handle[1]].final_score)
    ELSE None

---------------------------------------------------------------------------
(* One pass of main's `while running` loop: the key (if any) is handled,   *)
(* then the handle is polled, then update_data runs in Mode::Chart.        *)

\* the poll that leaves the JoinHandle in place
PollHandleKeepsHandle(a, keep) ==
    IF a.stress_test_handle # None /\ is_finished(a.stress_test_handle[1]) /\ keep
    THEN [a EXCEPT !.mode = "Finished"]
    ELSE a

\* the poll takes the handle and leaves the mode alone
PollHandleKeepsMode(a, keep) ==
    IF a.stress_test_handle # None /\ is_finished(a.stress_test_handle[1]) /\ keep
    THEN [a EXCEPT !.stress_test_handle = None]
    ELSE a

\* main.rs 679-684: the non-blocking poll of the JoinHandle
PollHandle(a, keep) ==
    IF a.stress_test_handle # None /\ is_finished(a.stress_test_handle[1]) /\ keep
    THEN [a EXCEPT !.stress_test_handle = None, !.mode = "Finished"]
    ELSE a

\* main.rs 685-688
ChartTick(a, keep, usage) ==
    IF a.mode = "Chart" /\ keep THEN update_data(a, usage) ELSE a

\* the handler spawned a task: the App holds a JoinHandle it did not hold before
Spawns(ev) ==
    ev.app.stress_test_handle # None
    /\ ev.app.stress_test_handle # app.stress_test_handle

\* the handler made a CpuExplosion: the App holds another than before
NewEngine(ev) == ev.app.stress_test # app.stress_test

LoopPass(ev) ==
    /\ running
    /\ ~panicked
    /\ Spawns(ev) => Len(runs) < MaxRuns
    /\ NewEngine(ev) => Len(stop_signal) < MaxRuns
    /\ \E usage \in UsageSamples :
          app' = ChartTick(PollHandle(ev.app, ev.running), ev.running, usage)
    /\ running' = ev.running
    /\ stop_signal' = IF NewEngine(ev)
                      THEN Append(stop_signal, FALSE)
                      ELSE stop_signal
    /\ runs' = IF Spawns(ev)
               THEN Append(runs, SpawnedTask(ev.app.stress_test,
                                             ev.app.total_duration_secs,
                                             ev.app.selected_cpu_count))
               ELSE IF ev.abort /\ app.stress_test_handle # None
               THEN Abort(app.stress_test_handle[1])
               ELSE runs
    /\ workers' = IF Spawns(ev) THEN Append(workers, <<>>) ELSE workers
    /\ UNCHANGED <<now, panicked, cancels>>

\* the digits of the duration buffer
DigitCount(text) == Cardinality({i \in 1..Len(text) : is_ascii_digit(text[i])})

\* the value * 60 of set_total_duration is about to be evaluated and overflows
ConfirmOverflows ==
    /\ app.mode = "Input"
    /\ app.current_input_focus = "OkButton"
    /\ MinutesOverflow(app)

KeyChar(c) ==
    /\ DigitCount(app.input_text) < MaxDigits
    /\ LoopPass(on_key(app, c))

KeyBackspace == LoopPass(on_key(app, "Backspace"))

KeyTab == LoopPass(on_key(app, "Tab"))

KeyDown == LoopPass(on_key(app, "Down"))

KeyLeft == LoopPass(on_key(app, "Left"))

KeyUp == LoopPass(on_key(app, "Up"))

KeyRight == LoopPass(on_key(app, "Right"))

KeyEnter == LoopPass(on_key(app, "Enter"))

KeyEsc == LoopPass(on_key(app, "Esc"))

KeyQuit == LoopPass(on_quit(app))

\* event::poll timed out: no key this pass
NoEvent == LoopPass(Handled(app))

\* with overflow checks on (the dev profile) value * 60 panics instead of wrapping
EnterPanics ==
    /\ running
    /\ ~panicked
    /\ ConfirmOverflows
    /\ panicked' = TRUE
    /\ UNCHANGED <<now, app, running, stop_signal, cancels, runs, workers>>

\* a task whose timeout the clock of the model can still reach
AwaitsTimeout(r) ==
    /\ runs[r].state = "joining"
    /\ NumLeq(runs[r].duration_sec, NatToNum(MaxDuration))
    /\ ~NumLeq(runs[r].duration_sec, NatToNum(as_secs(now - runs[r].start_time)))

\* time passes: up to MaxTicks, and on until the timeouts of AwaitsTimeout
Tick ==
    /\ now < MaxTicks \/ \E r \in 1..Len(runs) : AwaitsTimeout(r)
    /\ now' = now + 1
    /\ UNCHANGED <<app, running, panicked, stop_signal, cancels, runs, workers>>

---------------------------------------------------------------------------
(* lib.rs: CpuExplosion::stress_test_cpu *)

Tasks == 1..Len(runs)

WorkersOf(r) == 1..Len(workers[r])

\* lib.rs 58-71: the task starts to run: score, start_time, and the workers
TaskStart(r) ==
    /\ runs[r].state = "spawned"
    /\ runs' = [runs EXCEPT ![r].state = "joining",
                            ![r].score = 0,
                            ![r].start_time = now,
                            ![r].stopped_at_start = stop_signal[runs[r].stop_signal]]
    /\ workers' = [workers EXCEPT ![r] = [w \in 1..runs[r].cpu_cores |-> WorkerStart]]
    /\ UNCHANGED <<now, app, running, panicked, stop_signal, cancels>>

\* the join loop waiting for one worker more than were spawned
JoinSetEmptyOffByOne(r) ==
    \A w \in 1..(Len(workers[r]) + 1) :
        w \in WorkersOf(r) /\ workers[r][w].pc = "done"

\* the join loop left at the first worker that has returned
JoinSetEmptyEarly(r) == \E w \in WorkersOf(r) : workers[r][w].pc = "done"

\* lib.rs 73-78: join_next().await has yielded every worker (Ok once it has
\* returned, Err once it has panicked; the arms of the match change nothing
\* of the state) and yields None
JoinSetEmpty(r) == \A w \in WorkersOf(r) : workers[r][w].pc \in {"done", "panicked"}

\* lib.rs 73-83: the join loop is left, final_score is loaded and returned
TaskReturn(r) ==
    /\ runs[r].state = "joining"
    /\ JoinSetEmpty(r)
    /\ runs' = [runs EXCEPT ![r].state = "returned",
                            ![r].final_score = runs[r].score]
    /\ UNCHANGED <<now, app, running, panicked, stop_signal, cancels, workers>>

---------------------------------------------------------------------------
(* lib.rs: fibonnaci_compute_blocking *)

\* start_time.elapsed().as_secs() >= duration
TimedOut(r) ==
    NumLeq(runs[r].duration_sec, NatToNum(as_secs(now - runs[r].start_time)))

\* lib.rs 114-118, n times over: local_score stays below SCORE_UNIT, so n
\* passes carry converted_score up once per SCORE_UNIT counted
Iterate(wk, n) ==
    LET counted == wk.local_score + n
    IN  [wk EXCEPT !.local_score = counted % SCORE_UNIT,
                   !.converted_score = @ + (counted \div SCORE_UNIT),
                   !.iterations = @ + n]

\* the break at the timeout without the store
StoreStopSkipped(flag) == stop_signal

\* the store at the timeout writing false
StoreStopClears(flag) == [stop_signal EXCEPT ![flag] = FALSE]

\* stop_signal.store(true, Ordering::Relaxed)
StoreStop(flag) == [stop_signal EXCEPT ![flag] = TRUE]

\* score.store(cur_value + converted_score, Ordering::Relaxed); the sum stays
\* far below 2^64 for the iterations followed
StoreScore(r, wk) == [runs EXCEPT ![r].score = wk.cur_value + wk.converted_score]

\* the loop going on whatever the flag holds
AfterFlagIgnored(stop) == "time"

\* lib.rs 94-96: `if stop_signal.load(..) { break; }`
AfterFlag(stop) == IF stop THEN "load" ELSE "time"

IsWorker(r, w) ==
    /\ r \in Tasks
    /\ w \in WorkersOf(r)

\* lib.rs 94-96: the load of stop_signal
WorkerCheckFlag(r, w) ==
    /\ IsWorker(r, w)
    /\ workers[r][w].pc = "flag"
    /\ workers' = [workers EXCEPT ![r][w].pc = AfterFlag(stop_signal[runs[r].stop_signal])]
    /\ UNCHANGED <<now, app, running, panicked, stop_signal, cancels, runs>>

\* lib.rs 97-100: the timeout is detected
WorkerTimeout(r, w) ==
    /\ IsWorker(r, w)
    /\ workers[r][w].pc = "time"
    /\ TimedOut(r)
    /\ stop_signal' = StoreStop(runs[r].stop_signal)
    /\ workers' = [workers EXCEPT ![r][w].pc = "load"]
    /\ UNCHANGED <<now, app, running, panicked, cancels, runs>>

\* lib.rs 102-118: n passes through the loop body, the checks of the passes
\* after the first finding the flag false and the time not up
WorkerIterate(r, w, n) ==
    /\ IsWorker(r, w)
    /\ workers[r][w].pc = "time"
    /\ ~TimedOut(r)
    /\ ~stop_signal[runs[r].stop_signal]
    /\ workers[r][w].iterations + n <= MaxUnits * SCORE_UNIT
    /\ workers' = [workers EXCEPT ![r][w] = [Iterate(@, n) EXCEPT !.pc = "flag"]]
    /\ UNCHANGED <<now, app, running, panicked, stop_signal, cancels, runs>>

\* lib.rs 102-118: one pass through the loop body while the flag is already
\* set: the next load of the flag ends the loop
WorkerLastIteration(r, w) ==
    /\ IsWorker(r, w)
    /\ workers[r][w].pc = "time"
    /\ ~TimedOut(r)
    /\ stop_signal[runs[r].stop_signal]
    /\ workers' = [workers EXCEPT ![r][w] = [Iterate(@, 1) EXCEPT !.pc = "flag"]]
    /\ UNCHANGED <<now, app, running, panicked, stop_signal, cancels, runs>>

\* lib.rs 121: score.load
WorkerLoad(r, w) ==
    /\ IsWorker(r, w)
    /\ workers[r][w].pc = "load"
    /\ workers' = [workers EXCEPT ![r][w].cur_value = runs[r].score,
                                  ![r][w].pc = "store"]
    /\ UNCHANGED <<now, app, running, panicked, stop_signal, cancels, runs>>

\* lib.rs 122: score.store
WorkerStore(r, w) ==
    /\ IsWorker(r, w)
    /\ workers[r][w].pc = "store"
    /\ runs' = StoreScore(r, workers[r][w])
    /\ workers' = [workers EXCEPT ![r][w] = Returned(@)]
    /\ UNCHANGED <<now, app, running, panicked, stop_signal, cancels>>

\* a.wrapping_add(b) in place of a.checked_add(b)
wrapping_add(a, b) == Some(WrapU64(NumAdd(a, b)))

\* u64::checked_add: None when the sum is above u64::MAX
checked_add(a, b) ==
    IF NumLeq(NumAdd(a, b), U64_MAX) THEN Some(NumAdd(a, b)) ELSE None

\* lib.rs 88-89: the locals a and b of fibonnaci_compute_blocking, beside
\* those of WorkerStart
FibWorkerStart ==
    [ pc |-> "flag", local_score |-> 0, converted_score |-> 0, cur_value |-> 0,
      iterations |-> 0, a |-> <<0>>, b |-> <<1>> ]

\* lib.rs 102-113: the match on a.checked_add(b)
FibStep(wk) ==
    LET next == checked_add(wk.a, wk.b)
    IN  IF next # None
        THEN [wk EXCEPT !.a = wk.b, !.b = next[1]]
        ELSE [wk EXCEPT !.a = <<0>>, !.b = <<1>>]

\* lib.rs 102-118: one pass through the loop body, a and b included
FibIterate(r, w) ==
    /\ IsWorker(r, w)
    /\ workers[r][w].pc = "time"
    /\ ~TimedOut(r)
    /\ workers[r][w].iterations < MaxPasses
    /\ workers' = [workers EXCEPT ![r][w] = [Iterate(FibStep(@), 1) EXCEPT !.pc = "flag"]]
    /\ UNCHANGED <<now, app, running, panicked, stop_signal, cancels, runs>>

\* the closure given to spawn_blocking unwinds before its score.store has
\* taken effect: the JoinSet yields Err(JoinError) for it
WorkerPanics(r, w) ==
    /\ IsWorker(r, w)
    /\ workers[r][w].pc \in {"flag", "time", "load", "store"}
    /\ workers' = [workers EXCEPT ![r][w] = [Returned(@) EXCEPT !.pc = "panicked"]]
    /\ UNCHANGED <<now, app, running, panicked, stop_signal, cancels, runs>>

WorkerStep(r, w) ==
    \/ WorkerCheckFlag(r, w)
    \/ WorkerTimeout(r, w)
    \/ \E n \in IterBatches : WorkerIterate(r, w, n)
    \/ WorkerLoad(r, w)
    \/ WorkerStore(r, w)

TaskStep(r) ==
    \/ TaskStart(r)
    \/ TaskReturn(r)

EngineStep ==
    \E r \in Tasks :
        \/ TaskStep(r)
        \/ \E w \in WorkersOf(r) : WorkerStep(r, w)

\* a request that flips the flag instead of setting it
RequestStopToggles(flag) == [stop_signal EXCEPT ![flag] = ~@]

\* `pub stop_signal`: the caller's stop_signal.store(true, ..)
RequestStop(flag) == [stop_signal EXCEPT ![flag] = TRUE]

\* the caller of the library requests the stop
Cancel ==
    /\ cancels < MaxCancels
    /\ stop_signal' = RequestStop(1)
    /\ cancels' = cancels + 1
    /\ UNCHANGED <<now, app, running, panicked, runs, workers>>

---------------------------------------------------------------------------
(* The program: App::new(), then main's loop and the engine's threads *)

Init ==
    /\ now = 0
    /\ app = AppNew
    /\ running = TRUE
    /\ panicked = FALSE
    /\ stop_signal = <<FALSE>>
    /\ cancels = 0
    /\ runs = <<>>
    /\ workers = <<>>

Next ==
    \/ \E c \in CharKeys : KeyChar(c)
    \/ KeyBackspace
    \/ KeyTab
    \/ KeyDown
    \/ KeyLeft
    \/ KeyUp
    \/ KeyRight
    \/ KeyEnter
    \/ KeyEsc
    \/ KeyQuit
    \/ NoEvent
    \/ running /\ Tick
    \/ running /\ EngineStep

Spec == Init /\ [][Next]_vars

\* main's loop keeps going round: event::poll gives up after 50 ms without a
\* key, and nothing in a pass blocks
LoopFairness == WF_vars(NoEvent)

FairSpec == Spec /\ LoopFairness

(* The program once a duration has been typed: the buffer holds one of     *)
(* TypedInputs, the focus is still on the value; every key is followed but *)
(* the character and backspace keys                                        *)

MaxMinutes == <<3,0,7,4,4,5,7,3,4,5,6,1,8,2,5,8,6,0>>

Chars(digits) == [i \in 1..Len(digits) |-> AsciiDigits[digits[i] + 1]]

\* u64::MAX and the next number; the largest number of minutes that fits, and the next
TypedInputs ==
    { Chars(U64_MAX), Chars(TWO_POW_64), Chars(MaxMinutes),
      Chars(Append(SubSeq(MaxMinutes, 1, 17), 1)),
      <<"0">>, <<"7">> }

InputInit ==
    /\ now = 0
    /\ \E text \in TypedInputs :
          app = [AppNew EXCEPT !.input_text = text, !.current_input_focus = "ValueInput"]
    /\ running = TRUE
    /\ panicked = FALSE
    /\ stop_signal = <<FALSE>>
    /\ cancels = 0
    /\ runs = <<>>
    /\ workers = <<>>

InputNext ==
    \/ KeyTab
    \/ KeyDown
    \/ KeyLeft
    \/ KeyUp
    \/ KeyRight
    \/ KeyEnter
    \/ KeyEsc
    \/ KeyQuit
    \/ NoEvent
    \/ EnterPanics
    \/ running /\ ~panicked /\ Tick
    \/ running /\ ~panicked /\ EngineStep

InputSpec == InputInit /\ [][InputNext]_vars

(* The program on a machine of 1..MaxCores logical cores, once a duration  *)
(* of CoresInputs has been typed                                           *)

CoresInputs == { <<"0">> }

CoresInit ==
    /\ now = 0
    /\ \E text \in CoresInputs, cores \in 1..MaxCores :
          app = [AppNew EXCEPT !.input_text = text,
                               !.current_input_focus = "ValueInput",
                               !.total_logical_cores = cores]
    /\ running = TRUE
    /\ panicked = FALSE
    /\ stop_signal = <<FALSE>>
    /\ cancels = 0
    /\ runs = <<>>
    /\ workers = <<>>

CoresNext ==
    \/ \E c \in CharKeys : KeyChar(c)
    \/ KeyTab
    \/ KeyDown
    \/ KeyLeft
    \/ KeyUp
    \/ KeyRight
    \/ KeyEnter
    \/ KeyEsc
    \/ KeyQuit
    \/ NoEvent
    \/ running /\ Tick
    \/ running /\ EngineStep

CoresSpec == CoresInit /\ [][CoresNext]_vars

(* The program through a run long enough to fill the chart: the duration   *)
(* ChartInput was typed and has just been confirmed on the OK button.  The  *)
(* clock runs to MaxSeconds; the task starts within the second it was       *)
(* spawned in, and main's loop misses at most MaxMissed of the seconds the  *)
(* chart spans.                                                             *)

ChartInput == <<"1", "0", "2">>

\* the whole seconds since start_time that have no sample in the chart: those
\* between its first and its last sample, and those since its last sample
Missed(a) ==
    IF a.start_time = None THEN 0
    ELSE LET first == IF a.chart_data = <<>> THEN 1 ELSE a.chart_data[1][1]
         IN  as_secs(now - a.start_time[1]) - first + 1 - Len(a.chart_data)

\* time passes
SecondPasses ==
    /\ now < MaxSeconds * TicksPerSec
    /\ app.mode = "Chart" => Missed(app) <= MaxMissed
    /\ \A r \in 1..Len(runs) : runs[r].state # "spawned"
    /\ now' = now + 1
    /\ UNCHANGED <<app, running, panicked, stop_signal, cancels, runs, workers>>

ChartInit ==
    /\ now = 0
    /\ app = set_total_duration([AppNew EXCEPT !.input_text = ChartInput,
                                               !.current_input_focus = "OkButton"], 1)
    /\ running = TRUE
    /\ panicked = FALSE
    /\ stop_signal = <<FALSE>>
    /\ cancels = 0
    /\ runs = <<SpawnedTask(1, app.total_duration_secs, app.selected_cpu_count)>>
    /\ workers = << <<>> >>

ChartNext ==
    \/ KeyEnter
    \/ NoEvent
    \/ running /\ SecondPasses
    \/ running /\ EngineStep

ChartSpec == ChartInit /\ [][ChartNext]_vars

(* The library: one call of stress_test_cpu(duration_sec, cpu_cores) on a  *)
(* new CpuExplosion, by a caller that may store to stop_signal at any time *)

EngineInit ==
    /\ now = 0
    /\ app = AppNew
    /\ running = TRUE
    /\ panicked = FALSE
    /\ stop_signal = <<FALSE>>
    /\ cancels = 0
    /\ \E d \in 0..MaxDuration, c \in 1..MaxWorkers :
          runs = <<SpawnedTask(1, NatToNum(d), c)>>
    /\ workers = << <<>> >>

EngineNext ==
    \/ Cancel
    \/ Tick
    \/ EngineStep
    \/ \E w \in WorkersOf(1) : WorkerLastIteration(1, w)

EngineSpec == EngineInit /\ [][EngineNext]_vars

(* The library with faults: one call of stress_test_cpu with up to         *)
(* MaxFaultWorkers workers, any of which may panic before its store        *)

FaultInit ==
    /\ now = 0
    /\ app = AppNew
    /\ running = TRUE
    /\ panicked = FALSE
    /\ stop_signal = <<FALSE>>
    /\ cancels = 0
    /\ \E d \in 0..MaxDuration, c \in 1..MaxFaultWorkers :
          runs = <<SpawnedTask(1, NatToNum(d), c)>>
    /\ workers = << <<>> >>

FaultNext ==
    \/ Tick
    \/ EngineStep
    \/ \E w \in WorkersOf(1) : WorkerPanics(1, w)

FaultSpec == FaultInit /\ [][FaultNext]_vars

(* The library with the recurrence: one worker of a one second run,        *)
(* followed pass by pass with its a and b                                  *)

FibInit ==
    /\ now = 0
    /\ app = AppNew
    /\ running = TRUE
    /\ panicked = FALSE
    /\ stop_signal = <<FALSE>>
    /\ cancels = 0
    /\ runs = <<[SpawnedTask(1, <<1>>, 1) EXCEPT !.state = "joining"]>>
    /\ workers = << <<FibWorkerStart>> >>

FibNext ==
    \/ Tick
    \/ WorkerCheckFlag(1, 1)
    \/ FibIterate(1, 1)
    \/ WorkerTimeout(1, 1)
    \/ WorkerLoad(1, 1)
    \/ WorkerStore(1, 1)
    \/ TaskReturn(1)

FibSpec == FibInit /\ [][FibNext]_vars

\* the clock runs, and every thread that can take a step is scheduled
Fairness ==
    /\ WF_vars(Tick)
    /\ WF_vars(TaskStep(1))
    /\ \A w \in 1..MaxWorkers :
          WF_vars(WorkerStep(1, w) \/ WorkerLastIteration(1, w))

FairEngineSpec == EngineSpec /\ Fairness

---------------------------------------------------------------------------
(* Properties *)

AllReturned(r) ==
    /\ Len(workers[r]) = runs[r].cpu_cores
    /\ \A w \in WorkersOf(r) : workers[r][w].pc = "done"

RECURSIVE SumOfUnits(_, _)
SumOfUnits(r, n) ==
    IF n = 0 THEN 0
    ELSE SumOfUnits(r, n - 1) + (workers[r][n].iterations \div SCORE_UNIT)

\* C1: the score a run returns is the sum, over its workers, of
\* floor(iterations / SCORE_UNIT): no worker's contribution is lost.
\* (EngineSpec; the load and the store of lines 121-122 are two steps, and
\* a worker that loads before another stores overwrites its contribution.)
C1_ScoreIsSumOfWorkers ==
    runs[1].state = "returned" =>
        runs[1].final_score = SumOfUnits(1, Len(workers[1]))

\* C2: the score cell of a run never decreases, and no longer changes once
\* the run has returned.  (EngineSpec; fails by the lost update of C1.)
C2_ScoreNeverDecreases ==
    [][ /\ runs'[1].score >= runs[1].score
        /\ runs[1].state = "returned" => runs'[1].score = runs[1].score ]_vars

\* C3: Esc in Mode::Chart sets the stop_signal shared with the workers of the
\* run that is left.  (Spec; reset_for_input drops the handle and makes a new
\* CpuExplosion, and stores nothing to the flag of the old one.)
C3_EscSetsStopSignal ==
    [][ (app.mode = "Chart" /\ app'.mode = "Input")
            => stop_signal'[app.stress_test] ]_vars

\* C4: once the stop_signal of a run is true it stays true, whoever stores to
\* it: the workers and the caller only ever write true.  (EngineSpec)
C4_StopSignalMonotonic ==
    [][ \A e \in 1..Len(stop_signal) : stop_signal[e] => stop_signal'[e] ]_vars

C4_Witness ==
    /\ stop_signal[1]
    /\ cancels >= 2
    /\ Len(workers[1]) = 2
    /\ AllReturned(1)

\* C5: the task is finished (is_finished, and stress_test_cpu has returned)
\* only when every worker of the run has left its loop and stored its score;
\* the score returned is the score cell as it is after the last store.
\* (EngineSpec)
C5_ReturnsAfterAllWorkers ==
    is_finished(1) =>
        /\ AllReturned(1)
        /\ runs[1].final_score = runs[1].score

C5_Witness ==
    /\ runs[1].state = "returned"
    /\ Len(workers[1]) = 2
    /\ runs[1].final_score >= 1

\* C6: with the clock running and the threads scheduled, the workers leave
\* their loops once the whole seconds elapsed reach the duration, and the
\* call returns, with a score >= 0.  (FairEngineSpec)
C6_RunTerminates ==
    /\ <>(runs[1].state = "returned" /\ runs[1].final_score >= 0)
    /\ (runs[1].state = "joining" /\ TimedOut(1))
          ~> (\A w \in WorkersOf(1) : workers[1][w].pc \in {"load", "store", "done"})

C6_Witness ==
    /\ runs[1].state = "returned"
    /\ runs[1].duration_sec = <<1>>
    /\ cancels = 0
    /\ Len(workers[1]) = 2

\* C7: a worker that loads the flag and finds it true leaves the loop at that
\* check, without one more iteration; when the flag is already true as the
\* workers are spawned no worker iterates at all and the run returns 0.
\* (EngineSpec)
C7_StopAtNextCheck ==
    [][ /\ \A w \in WorkersOf(1) :
              (workers[1][w].pc = "flag" /\ stop_signal[1]
                 /\ workers'[1][w] # workers[1][w])
              => /\ workers'[1][w].pc = "load"
                 /\ workers'[1][w].iterations = workers[1][w].iterations
        /\ runs'[1].stopped_at_start =>
              /\ \A w \in 1..Len(workers'[1]) : workers'[1][w].iterations = 0
              /\ runs'[1].state = "returned" => runs'[1].final_score = 0 ]_vars

C7_Witness ==
    /\ runs[1].stopped_at_start
    /\ runs[1].state = "returned"
    /\ Len(workers[1]) = 2

\* C8: a stop requested a second time, or after the run has returned, leaves
\* the flag true and the score as it was; and once every worker has stored,
\* nothing changes the score.  (EngineSpec)
C8_CancelIdempotent ==
    [][ /\ (cancels' > cancels /\ (cancels >= 1 \/ runs[1].state = "returned"))
              => /\ stop_signal'[1]
                 /\ runs'[1].score = runs[1].score
                 /\ runs'[1].final_score = runs[1].final_score
        /\ (runs[1].state = "joining" /\ AllReturned(1))
              => runs'[1].score = runs[1].score ]_vars

C8_Witness ==
    /\ cancels >= 2
    /\ runs[1].state = "returned"
    /\ runs[1].final_score >= 1
    /\ stop_signal[1]

\* C9: Enter on the OK button with a buffer that does not parse as a u64
\* (empty, not a number, or above u64::MAX) starts nothing: no task, no new
\* CpuExplosion, the mode stays Input, and of the App only input_text
\* changes, to the error text.  (InputSpec)
C9_InvalidConfirmStartsNothing ==
    [][ (/\ app.mode = "Input"
         /\ app.current_input_focus = "OkButton"
         /\ ~parse_u64(app.input_text).ok
         /\ KeyEnter)
        => /\ app' = [app EXCEPT !.input_text = InvalidInput]
           /\ app'.mode = "Input"
           /\ app'.stress_test_handle = None
           /\ runs' = runs
           /\ workers' = workers
           /\ stop_signal' = stop_signal ]_vars

C9_Witness ==
    /\ app.mode = "Input"
    /\ app.input_text = InvalidInput
    /\ app.current_input_focus = "OkButton"
    /\ app.stress_test_handle = None
    /\ runs = <<>>

\* C10: every task is spawned with a duration above 0 seconds.  (Spec; the
\* buffer "0" parses, and set_total_duration spawns the run.)
C10_DurationPositive ==
    \A r \in 1..Len(runs) : runs[r].duration_sec # <<0>>

\* C11: the selected worker count stays within 1..total_logical_cores, and
\* every task is spawned with a worker count within 1..total_logical_cores,
\* whatever keys were pressed and however often the session was reset.
\* (CoresSpec)
C11_CoreCountInRange ==
    /\ app.total_logical_cores >= 1
    /\ app.selected_cpu_count \in 1..app.total_logical_cores
    /\ \A r \in 1..Len(runs) : runs[r].cpu_cores \in 1..app.total_logical_cores

C11_Witness ==
    /\ Len(runs) = 2
    /\ runs[1].cpu_cores = MaxCores
    /\ runs[2].cpu_cores = 1
    /\ app.total_logical_cores = MaxCores
    /\ app.mode = "Finished"

\* C12: the chart never holds more than max_data_points (100) samples; a
\* sample appended to a full chart removes the oldest sample and keeps the
\* others in their order, and one appended to a chart that is not full
\* removes nothing.  (ChartSpec)
C12_ChartCapped ==
    /\ [](Len(app.chart_data) <= max_data_points)
    /\ [][ app'.elapsed_secs > app.elapsed_secs =>
             IF Len(app.chart_data) = max_data_points
             THEN /\ Len(app'.chart_data) = max_data_points
                  /\ \A i \in 1..(max_data_points - 1) :
                        app'.chart_data[i] = app.chart_data[i + 1]
                  /\ app'.chart_data[max_data_points][1] = app'.elapsed_secs
             ELSE /\ Len(app'.chart_data) = Len(app.chart_data) + 1
                  /\ \A i \in 1..Len(app.chart_data) :
                        app'.chart_data[i] = app.chart_data[i]
                  /\ app'.chart_data[Len(app'.chart_data)][1] = app'.elapsed_secs ]_vars

C12_Witness ==
    /\ app.mode = "Chart"
    /\ Len(app.chart_data) = max_data_points
    /\ app.chart_data[1][1] > MaxMissed + 1

StrictlyIncreasing(chart) ==
    \A i \in 1..(Len(chart) - 1) : chart[i][1] < chart[i + 1][1]

\* C13: the elapsed values of the chart are strictly increasing in insertion
\* order, the last of them being elapsed_secs; a pass of the loop in
\* Mode::Chart appends one sample, of the whole seconds elapsed, when these
\* are above elapsed_secs, and otherwise leaves the chart as it is.
\* (ChartSpec)
C13_ElapsedStrictlyIncreasing ==
    /\ [](/\ StrictlyIncreasing(app.chart_data)
          /\ app.chart_data # <<>> =>
                app.chart_data[Len(app.chart_data)][1] = app.elapsed_secs)
    /\ [][ (app.mode = "Chart" /\ NoEvent /\ app'.mode = "Chart") =>
             LET since == as_secs(now - app.start_time[1])
             IN  IF since > app.elapsed_secs
                 THEN \E usage \in UsageSamples :
                         LET pushed == Append(app.chart_data, <<since, usage>>)
                         IN  app'.chart_data \in {pushed, Tail(pushed)}
                 ELSE app'.chart_data = app.chart_data ]_vars

C13_Witness ==
    /\ app.mode = "Chart"
    /\ Len(app.chart_data) >= 3
    /\ \E i \in 1..(Len(app.chart_data) - 1) :
          app.chart_data[i + 1][1] > app.chart_data[i][1] + 1

\* the task the App holds the JoinHandle of has finished
HandleFinished ==
    /\ app.stress_test_handle # None
    /\ is_finished(app.stress_test_handle[1])

\* C14: a run that completes while the App is in Mode::Chart, with no Esc and
\* no quit, is followed by Mode::Finished; the step into Mode::Finished is
\* taken from Mode::Chart on a finished handle and takes the handle away, a
\* handle is only ever that of a newly spawned task, and a pass of the loop
\* in Mode::Finished changes nothing: one transition per run.  (FairSpec)
C14_FinishedOncePerRun ==
    /\ (app.mode = "Chart" /\ running /\ HandleFinished)
          ~> (app.mode = "Finished" \/ app.mode = "Input" \/ ~running)
    /\ [](app.mode = "Finished" => app.stress_test_handle = None)
    /\ [][ (app.mode # "Finished" /\ app'.mode = "Finished")
             => /\ app.mode = "Chart"
                /\ HandleFinished
                /\ app'.stress_test_handle = None ]_vars
    /\ [][ (app'.stress_test_handle # None
              /\ app'.stress_test_handle # app.stress_test_handle)
             => /\ app.stress_test_handle = None
                /\ Len(runs') = Len(runs) + 1
                /\ app'.stress_test_handle = Some(Len(runs')) ]_vars
    /\ [][ (app.mode = "Finished" /\ NoEvent) => app' = app ]_vars

C14_Witness ==
    /\ app.mode = "Finished"
    /\ Len(runs) = 2
    /\ runs[1].state = "returned"
    /\ runs[2].state = "returned"
    /\ runs[2].duration_sec = <<1>>

\* C15: in Mode::Finished the App holds the final score that the run it
\* watched returned (the App's run is the task spawned last).  (Spec; the
\* poll sets stress_test_handle = None without awaiting the handle, and no
\* field of App takes the score.)
C15_FinishedHoldsScore ==
    app.mode = "Finished" =>
        LastResult(app) = Some(runs[Len(runs)].final_score)

\* C16: Esc in Mode::Chart ends the pass in Mode::Input with no JoinHandle, an
\* empty chart, an empty input buffer, and elapsed_secs and
\* total_duration_secs 0, also when the task had already finished: the poll
\* that follows the key in the same pass finds no handle, so the pass never
\* ends in Mode::Finished.  (Spec)
C16_EscReturnsToInput ==
    [][ (app.mode = "Chart" /\ KeyEsc)
        => /\ app'.mode = "Input"
           /\ app'.stress_test_handle = None
           /\ app'.chart_data = <<>>
           /\ app'.input_text = <<>>
           /\ app'.elapsed_secs = 0
           /\ app'.total_duration_secs = <<0>> ]_vars

C16_Witness ==
    /\ app.mode = "Input"
    /\ app.stress_test_handle = None
    /\ app.system_usage = 2
    /\ Len(runs) = 1
    /\ runs[1].state = "joining"
    /\ runs[1].duration_sec = <<1>>
    /\ now >= 1

\* C17: Enter on "run again" in Mode::Finished resets the session: the pass
\* ends in Mode::Input with an empty chart, an empty input buffer, no
\* JoinHandle, elapsed_secs and total_duration_secs 0, the popup selection on
\* "run again", selected_cpu_count 1, and a SystemUsage made anew.
\* (CoresSpec)
C17_RunAgainResets ==
    [][ (/\ app.mode = "Finished"
         /\ app.finished_popup_selected_option = "RunAgain"
         /\ KeyEnter)
        => /\ app'.mode = "Input"
           /\ app'.chart_data = <<>>
           /\ app'.input_text = <<>>
           /\ app'.stress_test_handle = None
           /\ app'.elapsed_secs = 0
           /\ app'.total_duration_secs = <<0>>
           /\ app'.finished_popup_selected_option = "RunAgain"
           /\ app'.selected_cpu_count = 1
           /\ app'.system_usage = app.system_usage + 1 ]_vars

C17_Witness ==
    /\ app.mode = "Input"
    /\ app.system_usage = 2
    /\ app.selected_cpu_count = 1
    /\ app.chart_data = <<>>
    /\ app.input_text = <<>>
    /\ app.stress_test_handle = None
    /\ Len(runs) = 1
    /\ runs[1].state = "returned"
    /\ runs[1].cpu_cores = MaxCores

\* C18: the focus after "run again" is the focus of a newly created App.
\* (Spec; App::new gives InputFocusElement::UnitSelection, reset_for_input
\* gives InputFocusElement::ValueInput.)
C18_RunAgainFocusIsDefault ==
    [][ (app.mode = "Finished" /\ app'.mode = "Input")
        => app'.current_input_focus = AppNew.current_input_focus ]_vars

\* the units of the workers of run r, among the first n, that did not panic
RECURSIVE SumOfSurvivors(_, _)
SumOfSurvivors(r, n) ==
    IF n = 0 THEN 0
    ELSE SumOfSurvivors(r, n - 1)
           + (IF workers[r][n].pc = "panicked" THEN 0
              ELSE workers[r][n].iterations \div SCORE_UNIT)

\* C19: a run with a worker that panicked before its store still returns,
\* after every worker has been joined, and what it returns is the sum of the
\* units of the workers that did not panic.  (FaultSpec; the run returns and
\* every worker is joined, but with two workers left the lost update of C1
\* makes the score less than their sum.)
C19_PanicContributesZero ==
    (runs[1].state = "returned" /\ \E w \in WorkersOf(1) : workers[1][w].pc = "panicked")
        => /\ \A w \in WorkersOf(1) : workers[1][w].pc \in {"done", "panicked"}
           /\ Len(workers[1]) = runs[1].cpu_cores
           /\ runs[1].final_score = SumOfSurvivors(1, Len(workers[1]))

\* the buffer holds the error text followed by typed digits
RetryBuffer(text) ==
    /\ Len(text) > Len(InvalidInput)
    /\ SubSeq(text, 1, Len(InvalidInput)) = InvalidInput
    /\ \A i \in (Len(InvalidInput) + 1)..Len(text) : is_ascii_digit(text[i])

\* the digits typed after the error text
RetryDigits(text) == SubSeq(text, Len(InvalidInput) + 1, Len(text))

\* C20: after a confirm with an invalid duration, typing the digits d into
\* the duration field and confirming on the OK button starts a run of
\* duration d (in the selected unit).  (Spec; the error text is written into
\* the buffer itself, the digits are appended to it, and the buffer
\* "Invalid input" followed by d does not parse either.)
C20_RetryStartsRun ==
    [][ (/\ app.mode = "Input"
         /\ app.current_input_focus = "OkButton"
         /\ RetryBuffer(app.input_text)
         /\ KeyEnter)
        => /\ app'.mode = "Chart"
           /\ Len(runs') = Len(runs) + 1
           /\ runs'[Len(runs')].duration_sec =
                 DurationSecs(parse_u64(RetryDigits(app.input_text)).value,
                              app.selected_unit) ]_vars

\* C21: a worker leaves its loop only at the load of a true flag or, after
\* that load found it false, at the timeout, and then it has stored true to
\* the flag; a pass through the loop body follows both checks.  So the flag
\* of a run of at least one worker that has returned with no worker panicked
\* is true.  (FaultSpec)
C21_ReturnedRunHasFlagSet ==
    /\ [](( /\ runs[1].state = "returned"
            /\ runs[1].cpu_cores >= 1
            /\ \A w \in WorkersOf(1) : workers[1][w].pc # "panicked" )
          => stop_signal[1])
    /\ [][ \A w \in WorkersOf(1) :
             /\ (workers[1][w].pc \in {"flag", "time"} /\ workers'[1][w].pc = "load")
                   => \/ workers[1][w].pc = "flag" /\ stop_signal[1]
                      \/ workers[1][w].pc = "time" /\ TimedOut(1) /\ stop_signal'[1]
             /\ (workers[1][w].pc = "flag" /\ workers'[1][w].pc = "time")
                   => ~stop_signal[1]
             /\ workers'[1][w].iterations > workers[1][w].iterations
                   => workers[1][w].pc = "time" /\ ~TimedOut(1) ]_vars

C21_Witness ==
    /\ runs[1].state = "returned"
    /\ runs[1].cpu_cores = MaxFaultWorkers
    /\ runs[1].duration_sec = <<1>>
    /\ \A w \in WorkersOf(1) : workers[1][w].pc = "done"
    /\ \E w \in WorkersOf(1) : workers[1][w].iterations > 0
    /\ stop_signal[1]

\* C22: the pass that takes the App from Mode::Input to Mode::Chart ends
\* with an empty chart, elapsed_secs 0 and start_time the instant of the
\* pass; the task spawned shares the stop_signal of the App's CpuExplosion,
\* and that flag is false then and still false when the task spawns its
\* workers, whatever runs, Esc keys and restarts came before.  (Spec)
C22_RunStartsFresh ==
    /\ [][ (app.mode = "Input" /\ app'.mode = "Chart")
            => /\ app'.chart_data = <<>>
               /\ app'.elapsed_secs = 0
               /\ app'.start_time = Some(now)
               /\ Len(runs') = Len(runs) + 1
               /\ runs'[Len(runs')].stop_signal = app'.stress_test
               /\ ~stop_signal'[app'.stress_test] ]_vars
    /\ [](\A r \in 1..Len(runs) : ~runs[r].stopped_at_start)

C22_Witness ==
    /\ app.mode = "Chart"
    /\ app.chart_data = <<>>
    /\ Len(runs) = 2
    /\ runs[1].state = "returned"
    /\ stop_signal[runs[1].stop_signal]
    /\ runs[2].state = "joining"
    /\ ~stop_signal[runs[2].stop_signal]

\* C23: the task spawned by Enter on the OK button gets the duration v when
\* the unit is Seconds and v * 60 when it is Minutes, v being the u64 the
\* buffer parses to.  (InputSpec; v * 60 is computed in u64 and wraps, or
\* panics, for v above u64::MAX / 60.)
C23_DurationIsExact ==
    [][ (/\ app.mode = "Input"
         /\ app.current_input_focus = "OkButton"
         /\ parse_u64(app.input_text).ok
         /\ KeyEnter)
        => /\ Len(runs') = Len(runs) + 1
           /\ runs'[Len(runs')].duration_sec =
                 IF app.selected_unit = "Seconds"
                 THEN parse_u64(app.input_text).value
                 ELSE NumMul(parse_u64(app.input_text).value, 60) ]_vars

\* fibs with the next Fibonacci number appended, when that is at most u64::MAX
FibExtend(fibs) ==
    LET next == NumAdd(fibs[Len(fibs) - 1], fibs[Len(fibs)])
    IN  IF NumLeq(next, U64_MAX) THEN Append(fibs, next) ELSE fibs

\* the Fibonacci numbers up to u64::MAX, in order from F(0) = 0, F(1) = 1
\* (extended four at a time to keep the recursion shallow)
RECURSIVE FibsWithin(_)
FibsWithin(fibs) ==
    LET more == FibExtend(FibExtend(FibExtend(FibExtend(fibs))))
    IN  IF more = fibs THEN fibs ELSE FibsWithin(more)

Fib64 == FibsWithin(<< <<0>>, <<1>> >>)

\* the worker still has its locals
InLoop(wk) == wk.pc \in {"flag", "time"}

\* C24: in its loop the worker's (a, b) is always a pair of consecutive
\* Fibonacci numbers, both at most u64::MAX, with a <= b; a pass takes
\* (a, b) to (b, a + b) when a + b is at most u64::MAX and to (0, 1) when it
\* is not, and counts the pass either way.  (FibSpec)
C24_RecurrenceNeverWraps ==
    /\ [](InLoop(workers[1][1]) =>
            /\ \E k \in 1..(Len(Fib64) - 1) :
                  /\ workers[1][1].a = Fib64[k]
                  /\ workers[1][1].b = Fib64[k + 1]
            /\ NumLeq(workers[1][1].a, workers[1][1].b)
            /\ NumLeq(workers[1][1].b, U64_MAX))
    /\ [][ (workers[1][1].pc = "time" /\ workers'[1][1].pc = "flag") =>
             /\ IF NumLeq(NumAdd(workers[1][1].a, workers[1][1].b), U64_MAX)
                THEN /\ workers'[1][1].a = workers[1][1].b
                     /\ workers'[1][1].b = NumAdd(workers[1][1].a, workers[1][1].b)
                ELSE /\ workers'[1][1].a = <<0>>
                     /\ workers'[1][1].b = <<1>>
             /\ workers'[1][1].iterations = workers[1][1].iterations + 1
             /\ workers'[1][1].local_score = workers[1][1].local_score + 1 ]_vars

C24_Witness ==
    /\ InLoop(workers[1][1])
    /\ workers[1][1].iterations = Len(Fib64) - 1
    /\ workers[1][1].a = <<0>>
    /\ workers[1][1].b = <<1>>
    /\ workers[1][1].local_score = Len(Fib64) - 1

\* C25: the App holds a JoinHandle exactly when its mode is Chart: Input and
\* Finished never hold one, Chart always does.  (Spec)
C25_HandleIffChart ==
    (app.stress_test_handle # None) <=> (app.mode = "Chart")

\* both directions at work: the second run is charted with its handle, and
\* the handle of the first, held while it was charted, is gone
C25_Witness ==
    /\ Len(runs) = 2
    /\ app.mode = "Chart"
    /\ app.stress_test_handle = Some(2)
    /\ runs[1].state = "returned"
    /\ runs[2].state # "returned"

\* run r's flag is set, its score is merged into, or its task returns
RunEvent(r) ==
    \/ stop_signal'[runs[r].stop_signal] /\ ~stop_signal[runs[r].stop_signal]
    \/ runs'[r].score # runs[r].score
    \/ runs'[r].state = "returned" /\ runs[r].state # "returned"

\* C26: runs are isolated: no two runs share a CpuExplosion (flag and score);
\* a step in which one run's flag is set, its score merged or its task
\* returns leaves every other run's flag, score and result as they were and
\* the App's mode too; and the App moves to Finished only when the task of
\* the handle it holds, the latest run on its current CpuExplosion, has
\* finished.  (Spec)
C26_RunsIsolated ==
    /\ [](\A r, q \in Tasks : r # q => runs[r].stop_signal # runs[q].stop_signal)
    /\ [][ \A r \in Tasks : (Len(runs') >= Len(runs) /\ RunEvent(r)) =>
              /\ app'.mode = app.mode
              /\ \A q \in Tasks \ {r} :
                    /\ stop_signal'[runs[q].stop_signal] = stop_signal[runs[q].stop_signal]
                    /\ runs'[q].score = runs[q].score
                    /\ runs'[q].final_score = runs[q].final_score
                    /\ runs'[q].state = runs[q].state ]_vars
    /\ [][ (app.mode # "Finished" /\ app'.mode = "Finished") =>
              /\ app.stress_test_handle = Some(Len(runs))
              /\ runs[Len(runs)].stop_signal = app.stress_test
              /\ is_finished(Len(runs)) ]_vars

\* the first run, of one second, was left with Esc before its second was up
\* and the second run started at once; the first has since timed out, merged
\* a score and returned, and the second is still computing with its flag
\* clear and its score untouched
C26_Witness ==
    /\ Len(runs) = 2
    /\ app.mode = "Chart"
    /\ app.stress_test_handle = Some(2)
    /\ app.start_time = Some(0)
    /\ runs[1].duration_sec = <<1>>
    /\ runs[1].state = "returned"
    /\ runs[1].score > 0
    /\ stop_signal[runs[1].stop_signal]
    /\ runs[2].state = "joining"
    /\ ~TimedOut(2)
    /\ ~stop_signal[runs[2].stop_signal]
    /\ runs[2].score = 0

\* C27: a step that spawns a task or takes the App into Chart is a pass that
\* handles Enter in Input with the focus on the OK button and a buffer that
\* parses as a u64; no other key, in no mode, spawns a task or enters
\* Chart.  (Spec)
C27_SpawnOnlyByConfirm ==
    [][ (\/ Len(runs') > Len(runs)
         \/ app.mode # "Chart" /\ app'.mode = "Chart"
         \/ app'.stress_test_handle # None /\ app'.stress_test_handle # app.stress_test_handle)
        => /\ app.mode = "Input"
           /\ app.current_input_focus = "OkButton"
           /\ parse_u64(app.input_text).ok
           /\ KeyEnter
           /\ Len(runs') = Len(runs) + 1
           /\ app'.mode = "Chart" ]_vars

\* right after a confirming Enter: the task is spawned and has not run yet,
\* focus and buffer are as the Enter found them
C27_Witness ==
    /\ app.mode = "Chart"
    /\ app.current_input_focus = "OkButton"
    /\ parse_u64(app.input_text).ok
    /\ app.stress_test_handle = Some(Len(runs))
    /\ runs[Len(runs)].state = "spawned"
    /\ app.start_time = Some(now)

=============================================================================
